---- MODULE Spec2Model ----
(***************************************************************************)
(* Model of app/lib/extract.ts: the response handler, the extraction       *)
(* pipeline of extractImagesFromURL and the fallback search of getBrowser. *)
(* JavaScript strings are sequences of one-character strings, so that      *)
(* toLowerCase, startsWith and endsWith are computed, not assumed.         *)
(***************************************************************************)
EXTENDS Integers, Sequences, FiniteSets, TLC

(* ------------------------------ bounds --------------------------------- *)

\* response events delivered to one page during one call
MaxResponses == 2
\* response events of the classification specification
MaxClassified == 2
\* response events delivered to each page when two calls run side by side
MaxConcurrent == 1
\* sessions a listing returns
MaxSessions == 3
\* active sessions a limits query returns
MaxActive == 2

(* ------------------------- JavaScript strings -------------------------- *)

UpperChars == <<"A","B","C","D","E","F","G","H","I","J","K","L","M",
                "N","O","P","Q","R","S","T","U","V","W","X","Y","Z">>
LowerChars == <<"a","b","c","d","e","f","g","h","i","j","k","l","m",
                "n","o","p","q","r","s","t","u","v","w","x","y","z">>

\* String.prototype.toLowerCase, one character
LowerChar(ch) ==
  IF \E i \in 1..Len(UpperChars) : UpperChars[i] = ch
  THEN LowerChars[CHOOSE i \in 1..Len(UpperChars) : UpperChars[i] = ch]
  ELSE ch

\* String.prototype.toLowerCase
toLowerCase(s) == [i \in 1..Len(s) |-> LowerChar(s[i])]

\* String.prototype.startsWith
startsWith(s, p) ==
  /\ Len(p) <= Len(s)
  /\ \A i \in 1..Len(p) : s[i] = p[i]

\* String.prototype.endsWith
endsWith(s, x) ==
  /\ Len(x) <= Len(s)
  /\ \A i \in 1..Len(x) : s[Len(s) - Len(x) + i] = x[i]

\* undefined / null / NaN of the JavaScript value space
\* (a one-element sequence whose element is no character, so that it is
\* comparable with every string and equal to none)
Undefined == <<"#undefined">>
Null == <<"#null">>

\* a string, undefined or null used as a condition: "" is falsy
Truthy(v) == v # Undefined /\ v # Null /\ v # <<>>

\* JavaScript numbers: a finite integer, NaN, or the null JSON writes for NaN
Num(n) == [t |-> "number", v |-> n]
NaN == [t |-> "NaN", v |-> 0]
NullNum == [t |-> "null", v |-> 0]

Digits == <<"0","1","2","3","4","5","6","7","8","9">>
IsDigit(ch) == \E d \in 1..Len(Digits) : Digits[d] = ch
DigitVal(ch) == (CHOOSE d \in 1..Len(Digits) : Digits[d] = ch) - 1

RECURSIVE DecimalValue(_)
DecimalValue(s) ==
  IF s = <<>> THEN 0
  ELSE 10 * DecimalValue(SubSeq(s, 1, Len(s) - 1)) + DigitVal(s[Len(s)])

IsDecimal(s) == s # <<>> /\ \A i \in 1..Len(s) : IsDigit(s[i])

\* Number(x) for x undefined or a header string: "" is 0, an optionally
\* signed decimal is its value, anything else is NaN
ToNumber(x) ==
  IF x = Undefined THEN NaN
  ELSE IF x = <<>> THEN Num(0)
  ELSE IF IsDecimal(x) THEN Num(DecimalValue(x))
  ELSE IF Head(x) = "-" /\ IsDecimal(Tail(x)) THEN Num(0 - DecimalValue(Tail(x)))
  ELSE IF Head(x) = "+" /\ IsDecimal(Tail(x)) THEN Num(DecimalValue(Tail(x)))
  ELSE NaN

(* ----------------------------- literals -------------------------------- *)

ExtJpg == <<".","j","p","g">>
ExtJpeg == <<".","j","p","e","g">>
ExtPng == <<".","p","n","g">>
ExtGif == <<".","g","i","f">>
ExtWebp == <<".","w","e","b","p">>
ExtBmp == <<".","b","m","p">>
ExtIco == <<".","i","c","o">>
ExtSvg == <<".","s","v","g">>

IMAGE_EXTENSIONS ==
  <<ExtJpg, ExtJpeg, ExtPng, ExtGif, ExtWebp, ExtBmp, ExtIco, ExtSvg>>

StrImage == <<"i","m","a","g","e">>
StrData == <<"d","a","t","a",":">>
MimeJpeg == StrImage \o <<"/","j","p","e","g">>
MimePng == StrImage \o <<"/","p","n","g">>
MimeGif == StrImage \o <<"/","g","i","f">>
MimeWebp == StrImage \o <<"/","w","e","b","p">>
MimeBmp == StrImage \o <<"/","b","m","p">>
MimeIcon == StrImage \o <<"/","x","-","i","c","o","n">>
MimeSvg == StrImage \o <<"/","s","v","g","+","x","m","l">>
MimeUnknown == StrImage \o <<"/","u","n","k","n","o","w","n">>
MimeHtml == <<"t","e","x","t","/","h","t","m","l">>

(* ------------------------- URL classification -------------------------- *)

isImageUrl(url) ==
  LET urlLower == toLowerCase(url)
  IN \E k \in 1..Len(IMAGE_EXTENSIONS) : endsWith(urlLower, IMAGE_EXTENSIONS[k])

\* the .svg line is missing
getMimeTypeFromUrl_NoSvg(url) ==
  LET urlLower == toLowerCase(url)
  IN IF endsWith(urlLower, ExtJpg) \/ endsWith(urlLower, ExtJpeg) THEN MimeJpeg
     ELSE IF endsWith(urlLower, ExtPng) THEN MimePng
     ELSE IF endsWith(urlLower, ExtGif) THEN MimeGif
     ELSE IF endsWith(urlLower, ExtWebp) THEN MimeWebp
     ELSE IF endsWith(urlLower, ExtBmp) THEN MimeBmp
     ELSE IF endsWith(urlLower, ExtIco) THEN MimeIcon
     ELSE Null

getMimeTypeFromUrl(url) ==
  LET urlLower == toLowerCase(url)
  IN IF endsWith(urlLower, ExtJpg) \/ endsWith(urlLower, ExtJpeg) THEN MimeJpeg
     ELSE IF endsWith(urlLower, ExtPng) THEN MimePng
     ELSE IF endsWith(urlLower, ExtGif) THEN MimeGif
     ELSE IF endsWith(urlLower, ExtWebp) THEN MimeWebp
     ELSE IF endsWith(urlLower, ExtBmp) THEN MimeBmp
     ELSE IF endsWith(urlLower, ExtIco) THEN MimeIcon
     ELSE IF endsWith(urlLower, ExtSvg) THEN MimeSvg
     ELSE Null

(* ------------------------------ inputs --------------------------------- *)

UrlPng == <<"a">> \o ExtPng
UrlPngUpper == <<"a",".","P","N","G">>
UrlGif == <<"b">> \o ExtGif
UrlPngQuery == <<"a">> \o ExtPng \o <<"?","v">>
UrlQueryPng == <<"c","?","f","=","a">> \o ExtPng
UrlPlain == <<"c">>
UrlData == StrData \o <<",","A">>
UrlJpg == <<"d">> \o ExtJpg
UrlJpeg == <<"d">> \o ExtJpeg
UrlWebp == <<"d">> \o ExtWebp
UrlBmp == <<"d">> \o ExtBmp
UrlIco == <<"d">> \o ExtIco
UrlSvg == <<"d">> \o ExtSvg

Urls == {UrlPng, UrlPngUpper, UrlGif, UrlPngQuery, UrlQueryPng, UrlPlain, UrlData,
         UrlJpg, UrlJpeg, UrlWebp, UrlBmp, UrlIco, UrlSvg}
ContentTypes == {Undefined, <<>>, MimePng, MimeHtml}
ContentLengths == {Undefined, <<"1","2">>, <<"x">>}

\* a response event: response.url() and the two headers the handler reads.
\* The content-length header is read independently of the content type, so
\* it is varied on two URLs only.
Responses ==
  [url : Urls, contentType : ContentTypes, contentLength : {Undefined}]
    \cup [url : {UrlPng, UrlData}, contentType : {Undefined, MimePng},
          contentLength : ContentLengths]

Resp(u, ct, cl) == [url |-> u, contentType |-> ct, contentLength |-> cl]

\* the responses a page of the pipeline specification can issue
PageResponses ==
  { Resp(UrlPng, MimePng, <<"1","2">>),
    Resp(UrlPng, Undefined, Undefined),
    Resp(UrlPng, MimeHtml, <<"x">>),
    Resp(UrlGif, Undefined, <<"1","2">>),
    Resp(UrlPng, <<>>, Undefined),
    Resp(UrlPngQuery, Undefined, Undefined),
    Resp(UrlQueryPng, Undefined, Undefined),
    Resp(UrlPlain, MimeHtml, <<"1","2">>),
    Resp(UrlData, MimePng, <<"1","2">>) }

\* natural sizes img.width, img.height of a decoded image
ImgDims == {<<0, 0>>, <<2, 3>>}

Calls == {1, 2}

(* -------------------------- response handler --------------------------- *)

\* contentType?.startsWith("image") || isImageUrl(responseUrl)
isImage(r) ==
  (r.contentType # Undefined /\ startsWith(r.contentType, StrImage))
    \/ isImageUrl(r.url)

\* prefers the type inferred from the URL over the header
ResolveMimeType_UrlFirst(r) ==
  IF Truthy(getMimeTypeFromUrl(r.url)) THEN getMimeTypeFromUrl(r.url)
  ELSE IF Truthy(r.contentType) THEN r.contentType
  ELSE MimeUnknown

ResolveMimeType(r) ==
  IF Truthy(r.contentType) THEN r.contentType
  ELSE IF Truthy(getMimeTypeFromUrl(r.url)) THEN getMimeTypeFromUrl(r.url)
  ELSE MimeUnknown

\* takes the header also for data: URIs
ResolveSize_HeaderOnly(r) == ToNumber(r.contentLength)

ResolveSize(r) ==
  IF startsWith(r.url, StrData) THEN Num(Len(r.url))
  ELSE ToNumber(r.contentLength)

NewRecord(r) ==
  [src |-> r.url, size |-> ResolveSize(r), mimeType |-> ResolveMimeType(r),
   width |-> 0, height |-> 0, decoded |-> FALSE]

\* pushes a record for every response
OnResponse_PushAll(imgs, r) == Append(imgs, NewRecord(r))

\* the body of page.on("response", ...) applied to the array in `images`
OnResponse(imgs, r) ==
  IF isImage(r) THEN Append(imgs, NewRecord(r)) ELSE imgs

(* ------------------------- page.evaluate glue -------------------------- *)

\* a record crossing the page boundary as JSON: NaN is written as null
SerializeRecord(image) ==
  [image EXCEPT !.size = IF image.size = NaN THEN NullNum ELSE image.size]

Serialize(imgs) == [i \in 1..Len(imgs) |-> SerializeRecord(imgs[i])]

\* copies the size but never sets the flag
DecodeAttempt_NoFlag(image, outcome) ==
  IF outcome = <<>>
  THEN image
  ELSE [image EXCEPT !.width = outcome[1], !.height = outcome[2]]

\* one in-page attempt: outcome is "reject" (img.decode() rejected) or the
\* natural size of the decoded image
DecodeAttempt(image, outcome) ==
  IF outcome = <<>>
  THEN image
  ELSE [image EXCEPT !.width = outcome[1], !.height = outcome[2],
                     !.decoded = TRUE]

DecodeOutcomes == {<<>>} \cup ImgDims

(* --------------------------- deduplication ----------------------------- *)

\* compares the whole record instead of the (src, mimeType) pair
findIndex_WholeRecord(self, image) ==
  CHOOSE j \in 1..Len(self) :
    /\ self[j] = image
    /\ \A k \in 1..(j - 1) : self[k] # image

\* finds the last matching index instead of the first
findIndex_Last(self, image) ==
  CHOOSE j \in 1..Len(self) :
    /\ self[j].src = image.src /\ self[j].mimeType = image.mimeType
    /\ \A k \in (j + 1)..Len(self) :
         ~(self[k].src = image.src /\ self[k].mimeType = image.mimeType)

\* self.findIndex(t => t.src === image.src && t.mimeType === image.mimeType)
findIndex(self, image) ==
  CHOOSE j \in 1..Len(self) :
    /\ self[j].src = image.src /\ self[j].mimeType = image.mimeType
    /\ \A k \in 1..(j - 1) :
         ~(self[k].src = image.src /\ self[k].mimeType = image.mimeType)

RECURSIVE FilterFrom(_, _)
FilterFrom(self, index) ==
  IF index > Len(self) THEN <<>>
  ELSE IF index = findIndex(self, self[index])
       THEN <<self[index]>> \o FilterFrom(self, index + 1)
       ELSE FilterFrom(self, index + 1)

\* images.filter((image, index, self) => index === self.findIndex(...))
Unique(imgs) == FilterFrom(imgs, 1)

(* ------------------------ extractImagesFromURL ------------------------- *)

VARIABLES
  pc,            \* per call: position in extractImagesFromURL
  page,          \* per call: "none", "open" or "closed"
  closeInvoked,  \* per call: page.close() has been called
  images,        \* per call: the array the variable `images` refers to
  inpage,        \* per call: the copy page.evaluate works on inside the page
  pending,       \* per call: indices whose decode attempt has not settled
  log,           \* per call: response events delivered, with the pc then
  result,        \* per call: the returned list
  settled,       \* per call: the outcome of each decode attempt that settled
  error,         \* per call: the rejection the call threw, as the step it came from
  invoked        \* per call: the page operations the call has started, in order

evars == <<pc, page, closeInvoked, images, inpage, pending, log, result,
           settled, error, invoked>>

VARIABLES
  gpc,          \* position in getBrowser
  BROWSER,      \* the pool binding is supplied
  wsEndpoint,   \* the direct endpoint argument
  sessions,     \* what puppeteer.sessions returned
  sessionIds,   \* the list the running for loop iterates
  idx,          \* position of that loop
  browser,      \* the variable `browser`
  attempts      \* connection attempts made so far, in order

bvars == <<gpc, BROWSER, wsEndpoint, sessions, sessionIds, idx, browser, attempts>>

vars == <<evars, bvars>>

\* the awaits of a call during which its page is open and can raise events
Awaiting == {"goto", "screenshot", "evaluate", "close"}

\* the handler is registered only after navigation
Listening_AfterGoto == {"screenshot", "evaluate", "close"}

\* the awaits during which the handler of page.on("response", ...) is registered
Listening == {"goto", "screenshot", "evaluate", "close"}

NoError == "none"

InitCall(active) ==
  /\ pc = [c \in Calls |-> IF c \in active THEN "start" ELSE "idle"]
  /\ page = [c \in Calls |-> "none"]
  /\ closeInvoked = [c \in Calls |-> FALSE]
  /\ images = [c \in Calls |-> <<>>]
  /\ inpage = [c \in Calls |-> <<>>]
  /\ pending = [c \in Calls |-> {}]
  /\ log = [c \in Calls |-> <<>>]
  /\ result = [c \in Calls |-> <<>>]
  /\ settled = [c \in Calls |-> <<>>]
  /\ error = [c \in Calls |-> NoError]
  /\ invoked = [c \in Calls |-> IF c \in active THEN <<"newPage">> ELSE <<>>]


\* const page = await browser.newPage(); page.on("response", ...);
\* page.goto(url) is started. A rejection is caught and rethrown as it is.
NewPage(c) ==
  /\ pc[c] = "start"
  /\ \E ok \in BOOLEAN :
       IF ok
       THEN /\ pc' = [pc EXCEPT ![c] = "goto"]
            /\ page' = [page EXCEPT ![c] = "open"]
            /\ invoked' = [invoked EXCEPT ![c] = Append(invoked[c], "goto")]
            /\ UNCHANGED error
       ELSE /\ pc' = [pc EXCEPT ![c] = "thrown"]
            /\ error' = [error EXCEPT ![c] = "newPage"]
            /\ UNCHANGED <<page, invoked>>
  /\ UNCHANGED <<closeInvoked, images, inpage, pending, log, result, settled>>
  /\ UNCHANGED bvars

\* one array shared by every call instead of the local `images`
Deliver_Shared(c, r, max) ==
  /\ pc[c] \in Awaiting
  /\ page[c] = "open"
  /\ Len(log[c]) < max
  /\ images' = [d \in Calls |->
                  IF pc[c] \in Listening THEN OnResponse(images[d], r)
                  ELSE images[d]]
  /\ log' = [log EXCEPT ![c] = Append(log[c], [resp |-> r, at |-> pc[c]])]
  /\ UNCHANGED <<pc, page, closeInvoked, inpage, pending, result, settled, error,
                 invoked>>
  /\ UNCHANGED bvars

\* a response event on the page of call c; the handler, when registered,
\* runs on the array the variable `images` refers to at that moment
Deliver(c, r, max) ==
  /\ pc[c] \in Awaiting
  /\ page[c] = "open"
  /\ Len(log[c]) < max
  /\ images' = [images EXCEPT ![c] =
                  IF pc[c] \in Listening THEN OnResponse(images[c], r)
                  ELSE images[c]]
  /\ log' = [log EXCEPT ![c] = Append(log[c], [resp |-> r, at |-> pc[c]])]
  /\ UNCHANGED <<pc, page, closeInvoked, inpage, pending, result, settled, error,
                 invoked>>
  /\ UNCHANGED bvars

Response(c) == \E r \in PageResponses : Deliver(c, r, MaxResponses)

\* a rejected navigation is tried again
GotoDone_Retry(c) ==
  /\ pc[c] = "goto"
  /\ \E ok \in BOOLEAN :
       IF ok
       THEN /\ pc' = [pc EXCEPT ![c] = "screenshot"]
            /\ invoked' = [invoked EXCEPT ![c] = Append(invoked[c], "screenshot")]
       ELSE /\ Len(invoked[c]) < 4
            /\ invoked' = [invoked EXCEPT ![c] = Append(invoked[c], "goto")]
            /\ UNCHANGED pc
  /\ UNCHANGED <<page, closeInvoked, images, inpage, pending, log, result, settled,
                 error>>
  /\ UNCHANGED bvars

\* await page.goto(url) settles; on success page.screenshot() is started
GotoDone(c) ==
  /\ pc[c] = "goto"
  /\ \E ok \in BOOLEAN :
       IF ok
       THEN /\ pc' = [pc EXCEPT ![c] = "screenshot"]
            /\ invoked' = [invoked EXCEPT ![c] = Append(invoked[c], "screenshot")]
            /\ UNCHANGED error
       ELSE /\ pc' = [pc EXCEPT ![c] = "thrown"]
            /\ error' = [error EXCEPT ![c] = "goto"]
            /\ UNCHANGED invoked
  /\ UNCHANGED <<page, closeInvoked, images, inpage, pending, log, result, settled>>
  /\ UNCHANGED bvars

\* no attempt has settled at this index
Unsettled == <<"#pending">>

\* await page.screenshot() settles; on success page.evaluate(fn, images) is
\* called: the argument is serialized and every decode attempt is started
ScreenshotDone(c) ==
  /\ pc[c] = "screenshot"
  /\ \E ok \in BOOLEAN :
       IF ok
       THEN /\ pc' = [pc EXCEPT ![c] = "evaluate"]
            /\ inpage' = [inpage EXCEPT ![c] = Serialize(images[c])]
            /\ pending' = [pending EXCEPT ![c] = 1..Len(images[c])]
            /\ settled' = [settled EXCEPT ![c] =
                             [i \in 1..Len(images[c]) |-> Unsettled]]
            /\ invoked' = [invoked EXCEPT ![c] = Append(invoked[c], "evaluate")]
            /\ UNCHANGED error
       ELSE /\ pc' = [pc EXCEPT ![c] = "thrown"]
            /\ error' = [error EXCEPT ![c] = "screenshot"]
            /\ UNCHANGED <<inpage, pending, settled, invoked>>
  /\ UNCHANGED <<page, closeInvoked, images, log, result>>
  /\ UNCHANGED bvars

\* no try/catch in the callback: a rejected img.decode() rejects Promise.all
Decode_FailFast(c) ==
  /\ pc[c] = "evaluate"
  /\ \E i \in pending[c], outcome \in DecodeOutcomes :
       /\ inpage' = [inpage EXCEPT ![c][i] = DecodeAttempt(inpage[c][i], outcome)]
       /\ pending' = [pending EXCEPT ![c] = pending[c] \ {i}]
       /\ settled' = [settled EXCEPT ![c][i] = outcome]
       /\ pc' = [pc EXCEPT ![c] = IF outcome = <<>> THEN "thrown" ELSE pc[c]]
       /\ error' = [error EXCEPT ![c] = IF outcome = <<>> THEN "evaluate" ELSE error[c]]
  /\ UNCHANGED <<page, closeInvoked, images, log, result, invoked>>
  /\ UNCHANGED bvars

\* one of the async callbacks of images.map(...) settles; its try/catch
\* turns a rejected img.decode() into the unchanged record
Decode(c) ==
  /\ pc[c] = "evaluate"
  /\ \E i \in pending[c], outcome \in DecodeOutcomes :
       /\ inpage' = [inpage EXCEPT ![c][i] = DecodeAttempt(inpage[c][i], outcome)]
       /\ pending' = [pending EXCEPT ![c] = pending[c] \ {i}]
       /\ settled' = [settled EXCEPT ![c][i] = outcome]
  /\ UNCHANGED <<pc, page, closeInvoked, images, log, result, error, invoked>>
  /\ UNCHANGED bvars

\* Promise.all resolves, page.evaluate returns the records by value and
\* `images` is reassigned; page.close() is started
EvaluateDone(c) ==
  /\ pc[c] = "evaluate"
  /\ pending[c] = {}
  /\ images' = [images EXCEPT ![c] = Serialize(inpage[c])]
  /\ pc' = [pc EXCEPT ![c] = "close"]
  /\ closeInvoked' = [closeInvoked EXCEPT ![c] = TRUE]
  /\ invoked' = [invoked EXCEPT ![c] = Append(invoked[c], "close")]
  /\ UNCHANGED <<page, inpage, pending, log, result, settled, error>>
  /\ UNCHANGED bvars

\* page.evaluate rejects (the page crashed, the context was destroyed)
EvaluateFail(c) ==
  /\ pc[c] = "evaluate"
  /\ pc' = [pc EXCEPT ![c] = "thrown"]
  /\ error' = [error EXCEPT ![c] = "evaluate"]
  /\ UNCHANGED <<page, closeInvoked, images, inpage, pending, log, result, settled,
                 invoked>>
  /\ UNCHANGED bvars

\* await page.close() settles; on success the list is made unique and returned
CloseDone(c) ==
  /\ pc[c] = "close"
  /\ \E ok \in BOOLEAN :
       IF ok
       THEN /\ pc' = [pc EXCEPT ![c] = "returned"]
            /\ page' = [page EXCEPT ![c] = "closed"]
            /\ images' = [images EXCEPT ![c] = Unique(images[c])]
            /\ result' = [result EXCEPT ![c] = Unique(images[c])]
            /\ UNCHANGED error
       ELSE /\ pc' = [pc EXCEPT ![c] = "thrown"]
            /\ error' = [error EXCEPT ![c] = "close"]
            /\ UNCHANGED <<page, images, result>>
  /\ UNCHANGED <<closeInvoked, inpage, pending, log, settled, invoked>>
  /\ UNCHANGED bvars

Extract ==
  \E c \in Calls :
    \/ NewPage(c)
    \/ Response(c)
    \/ GotoDone(c)
    \/ ScreenshotDone(c)
    \/ Decode(c)
    \/ EvaluateDone(c)
    \/ EvaluateFail(c)
    \/ CloseDone(c)

\* the responses the page of call c issues when two calls run side by side
ConcPage(c) ==
  IF c = 1 THEN {Resp(UrlPng, MimePng, <<"1","2">>)}
  ELSE {Resp(UrlGif, Undefined, Undefined)}

ResponseOn(c) == \E r \in ConcPage(c) : Deliver(c, r, MaxConcurrent)

\* two calls on one browser handle: their steps and events interleave
Concurrent ==
  \E c \in Calls :
    \/ NewPage(c)
    \/ ResponseOn(c)
    \/ GotoDone(c)
    \/ ScreenshotDone(c)
    \/ Decode(c)
    \/ EvaluateDone(c)
    \/ EvaluateFail(c)
    \/ CloseDone(c)

\* the handler alone, on a page that is navigating, over every response
Classify(c) == \E r \in Responses : Deliver(c, r, MaxClassified)

(* ----------------------------- getBrowser ------------------------------ *)

\* sessions a listing or a limits query can name
SessionIds == 1..MaxSessions

NoConnection == <<>>
SomeConnection == <<"c">>

\* the lists of distinct sessions of length at most n
RECURSIVE DistinctSeqs(_, _)
DistinctSeqs(S, n) ==
  IF n = 0 THEN {<<>>}
  ELSE DistinctSeqs(S, n - 1) \cup
       { Append(q, x) : q \in { q0 \in DistinctSeqs(S, n - 1) : Len(q0) = n - 1 },
                        x \in S }

IdLists(n) == { q \in DistinctSeqs(SessionIds, n) :
                  \A i, j \in 1..Len(q) : i # j => q[i] # q[j] }

\* results of puppeteer.sessions(BROWSER)
SessionLists ==
  UNION { [1..Len(q) -> {NoConnection, SomeConnection}] \X {q} : q \in IdLists(MaxSessions) }

SessionsOf(l) ==
  [i \in 1..Len(l[2]) |-> [sessionId |-> l[2][i], connectionId |-> l[1][i]]]

\* results of puppeteer.limits(BROWSER), as the ids of activeSessions
ActiveLists == IdLists(MaxActive)

WsEndpoints == {Undefined, <<>>, <<"w","s">>}

NoBrowser == [via |-> "none", id |-> 0]
SessionBrowser(id) == [via |-> "session", id |-> id]
LaunchedBrowser == [via |-> "launch", id |-> 0]
EndpointBrowser == [via |-> "endpoint", id |-> 0]

\* maps without filtering
RECURSIVE IdleIds_NoFilter(_)
IdleIds_NoFilter(listed) ==
  IF listed = <<>> THEN <<>>
  ELSE <<Head(listed).sessionId>> \o IdleIds_NoFilter(Tail(listed))

\* sessions.filter(({connectionId}) => !connectionId).map(({sessionId}) => sessionId)
RECURSIVE IdleIds(_)
IdleIds(listed) ==
  IF listed = <<>> THEN <<>>
  ELSE IF ~Truthy(Head(listed).connectionId)
       THEN <<Head(listed).sessionId>> \o IdleIds(Tail(listed))
       ELSE IdleIds(Tail(listed))

Attempt(phase, id, ok) == [phase |-> phase, id |-> id, ok |-> ok]

BrowserIdle ==
  /\ gpc = "idle"
  /\ BROWSER = FALSE
  /\ wsEndpoint = Undefined
  /\ sessions = <<>>
  /\ sessionIds = <<>>
  /\ idx = 1
  /\ browser = NoBrowser
  /\ attempts = <<>>

InitBrowser ==
  /\ gpc = "start"
  /\ BROWSER \in BOOLEAN
  /\ wsEndpoint \in WsEndpoints
  /\ sessions = <<>>
  /\ sessionIds = <<>>
  /\ idx = 1
  /\ browser = NoBrowser
  /\ attempts = <<>>

\* if (!browser): the endpoint is not looked at
AfterPool_Always == "direct"

\* if (!browser && wsEndpoint): where the code goes when the pool path ends
\* without a handle
AfterPool == IF Truthy(wsEndpoint) THEN "direct" ELSE "returned"

\* if (BROWSER) is false
NoPool ==
  /\ gpc = "start"
  /\ ~BROWSER
  /\ gpc' = AfterPool
  /\ UNCHANGED <<BROWSER, wsEndpoint, sessions, sessionIds, idx, browser, attempts>>
  /\ UNCHANGED evars

\* await puppeteer.sessions(BROWSER), outside any try: a rejection leaves
\* getBrowser; otherwise the idle ids are filtered and the first loop starts
ListSessions ==
  /\ gpc = "start"
  /\ BROWSER
  /\ \/ /\ gpc' = "thrown"
        /\ UNCHANGED <<sessions, sessionIds, idx>>
     \/ \E l \in SessionLists :
          /\ sessions' = SessionsOf(l)
          /\ sessionIds' = IdleIds(SessionsOf(l))
          /\ idx' = 1
          /\ gpc' = "idleLoop"
  /\ UNCHANGED <<BROWSER, wsEndpoint, browser, attempts>>
  /\ UNCHANGED evars

\* one iteration of a for loop: connect; break on success, continue on error
ConnectSession(at, phase) ==
  /\ gpc = at
  /\ idx <= Len(sessionIds)
  /\ \E ok \in BOOLEAN :
       /\ attempts' = Append(attempts, Attempt(phase, sessionIds[idx], ok))
       /\ IF ok
          THEN /\ browser' = SessionBrowser(sessionIds[idx])
               /\ gpc' = "returned"
               /\ UNCHANGED idx
          ELSE /\ idx' = idx + 1
               /\ UNCHANGED <<browser, gpc>>
  /\ UNCHANGED <<BROWSER, wsEndpoint, sessions, sessionIds>>
  /\ UNCHANGED evars

ConnectIdle == ConnectSession("idleLoop", "idle")

\* the first loop is exhausted: await puppeteer.limits(BROWSER), outside any
\* try; the second loop starts over activeSessions
QueryLimits ==
  /\ gpc = "idleLoop"
  /\ idx > Len(sessionIds)
  /\ \/ /\ gpc' = "thrown"
        /\ UNCHANGED <<sessionIds, idx>>
     \/ \E a \in ActiveLists :
          /\ sessionIds' = a
          /\ idx' = 1
          /\ gpc' = "activeLoop"
  /\ UNCHANGED <<BROWSER, wsEndpoint, sessions, browser, attempts>>
  /\ UNCHANGED evars

ConnectActive == ConnectSession("activeLoop", "active")

\* launch outside any try: a rejection leaves getBrowser
Launch_Uncaught ==
  /\ gpc = "activeLoop"
  /\ idx > Len(sessionIds)
  /\ \E ok \in BOOLEAN :
       /\ attempts' = Append(attempts, Attempt("launch", 0, ok))
       /\ IF ok
          THEN /\ browser' = LaunchedBrowser
               /\ gpc' = "returned"
          ELSE /\ gpc' = "thrown"
               /\ UNCHANGED browser
  /\ UNCHANGED <<BROWSER, wsEndpoint, sessions, sessionIds, idx>>
  /\ UNCHANGED evars

\* the second loop is exhausted: launch(BROWSER, {keep_alive: 600000})
Launch ==
  /\ gpc = "activeLoop"
  /\ idx > Len(sessionIds)
  /\ \E ok \in BOOLEAN :
       /\ attempts' = Append(attempts, Attempt("launch", 0, ok))
       /\ IF ok
          THEN /\ browser' = LaunchedBrowser
               /\ gpc' = "returned"
          ELSE /\ gpc' = AfterPool
               /\ UNCHANGED browser
  /\ UNCHANGED <<BROWSER, wsEndpoint, sessions, sessionIds, idx>>
  /\ UNCHANGED evars

\* puppeteer.connect({browserWSEndpoint: wsEndpoint}) settles
ConnectDirect ==
  /\ gpc = "direct"
  /\ \E ok \in BOOLEAN :
       /\ attempts' = Append(attempts, Attempt("direct", 0, ok))
       /\ browser' = IF ok THEN EndpointBrowser ELSE browser
  /\ gpc' = "returned"
  /\ UNCHANGED <<BROWSER, wsEndpoint, sessions, sessionIds, idx>>
  /\ UNCHANGED evars

GetBrowser ==
  \/ NoPool
  \/ ListSessions
  \/ ConnectIdle
  \/ QueryLimits
  \/ ConnectActive
  \/ Launch
  \/ ConnectDirect

(* --------------------------- specifications ---------------------------- *)

\* one extraction call on a live browser handle
Init == InitCall({1}) /\ BrowserIdle
Next == Extract
Spec == Init /\ [][Next]_vars

\* the response handler over the whole response space
InitClassify ==
  /\ pc = [c \in Calls |-> IF c = 1 THEN "goto" ELSE "idle"]
  /\ page = [c \in Calls |-> IF c = 1 THEN "open" ELSE "none"]
  /\ closeInvoked = [c \in Calls |-> FALSE]
  /\ images = [c \in Calls |-> <<>>]
  /\ inpage = [c \in Calls |-> <<>>]
  /\ pending = [c \in Calls |-> {}]
  /\ log = [c \in Calls |-> <<>>]
  /\ result = [c \in Calls |-> <<>>]
  /\ settled = [c \in Calls |-> <<>>]
  /\ error = [c \in Calls |-> NoError]
  /\ invoked = [c \in Calls |-> IF c = 1 THEN <<"newPage", "goto">> ELSE <<>>]
  /\ BrowserIdle
NextClassify == Classify(1)
SpecClassify == InitClassify /\ [][NextClassify]_vars

\* two concurrent extraction calls sharing one browser handle
InitConcurrent == InitCall({1, 2}) /\ BrowserIdle
NextConcurrent == Concurrent
SpecConcurrent == InitConcurrent /\ [][NextConcurrent]_vars

\* one getBrowser call
InitAcquire == InitCall({}) /\ InitBrowser
NextAcquire == GetBrowser
SpecAcquire == InitAcquire /\ [][NextAcquire]_vars

(* ------------------------------- claims -------------------------------- *)

SamePair(a, b) == a.src = b.src /\ a.mimeType = b.mimeType

Returned(c) == pc[c] = "returned"
Ended(c) == pc[c] \in {"returned", "thrown"}

\* C1: the returned list has no two records with the same (src, mimeType),
\* and two responses with the same URL and content-type image/png that were
\* observed before the decode step leave exactly one record for that pair.
C1_NoDuplicatePairs ==
  \A c \in Calls :
    Returned(c) =>
      /\ \A i, j \in 1..Len(result[c]) :
           SamePair(result[c][i], result[c][j]) => i = j
      /\ \A m, n \in 1..Len(log[c]) :
           ( /\ m < n
             /\ log[c][m].at \in {"goto", "screenshot"}
             /\ log[c][n].at \in {"goto", "screenshot"}
             /\ log[c][m].resp.url = log[c][n].resp.url
             /\ log[c][m].resp.contentType = MimePng
             /\ log[c][n].resp.contentType = MimePng )
           => Cardinality({ k \in 1..Len(result[c]) :
                              /\ result[c][k].src = log[c][m].resp.url
                              /\ result[c][k].mimeType = MimePng }) = 1

C1_Witness ==
  /\ Returned(1)
  /\ Len(log[1]) = 2
  /\ log[1][1] = [resp |-> Resp(UrlPng, MimePng, <<"1","2">>), at |-> "goto"]
  /\ log[1][2] = [resp |-> Resp(UrlPng, MimePng, <<"1","2">>), at |-> "goto"]
  /\ Len(result[1]) = 1

\* C2: when the call has ended after browser.newPage() succeeded,
\* page.close() has been invoked.
C2_PageClosedOnEveryExit ==
  \A c \in Calls : (Ended(c) /\ page[c] # "none") => closeInvoked[c]

\* C3: getBrowser never raises an error to its caller.
C3_NeverRaises == gpc # "thrown"

PhaseRank(ph) ==
  CASE ph = "idle" -> 1 [] ph = "active" -> 2 [] ph = "launch" -> 3
    [] ph = "direct" -> 4

\* the sessions of the listing that have no connection attached
ListedIdle == { i \in 1..Len(sessions) : sessions[i].connectionId = NoConnection }

FailedBefore(ph, id, n) ==
  \E m \in 1..(n - 1) : attempts[m] = Attempt(ph, id, FALSE)

\* C4: attempts are made in the order idle, active, launch, direct; none is
\* made after a success; an attempt of a later phase comes only after every
\* option of the earlier phases failed; the direct endpoint is tried only
\* when the pool path gave no handle and an endpoint string was supplied.
C4_OrderedShortCircuit ==
  /\ \A m, n \in 1..Len(attempts) :
       m < n => /\ PhaseRank(attempts[m].phase) <= PhaseRank(attempts[n].phase)
                /\ ~attempts[m].ok
  /\ \A n \in 1..Len(attempts) :
       /\ attempts[n].phase \in {"active", "launch", "direct"} /\ BROWSER
            => \A i \in ListedIdle : FailedBefore("idle", sessions[i].sessionId, n)
       /\ attempts[n].phase = "launch"
            => \A i \in 1..Len(sessionIds) : FailedBefore("active", sessionIds[i], n)
       /\ attempts[n].phase = "direct" /\ BROWSER
            => \E m \in 1..(n - 1) : attempts[m] = Attempt("launch", 0, FALSE)
       /\ attempts[n].phase = "direct"
            => /\ wsEndpoint # Undefined
               /\ \A m \in 1..(n - 1) : ~attempts[m].ok
       /\ attempts[n].phase \in {"idle", "active", "launch"} => BROWSER
  /\ (gpc = "returned" /\ browser # NoBrowser)
       => attempts # <<>> /\ attempts[Len(attempts)].ok

C4_Witness ==
  /\ gpc = "returned"
  /\ Len(attempts) = 4
  /\ attempts[1] = Attempt("idle", 2, FALSE)
  /\ attempts[2] = Attempt("active", 1, FALSE)
  /\ attempts[3] = Attempt("launch", 0, FALSE)
  /\ attempts[4] = Attempt("direct", 0, TRUE)
  /\ browser = EndpointBrowser

\* the n-th session of the listing, in listed order, that has no connection
NthListedIdle(n) ==
  sessions[CHOOSE i \in ListedIdle :
             Cardinality({ k \in ListedIdle : k <= i }) = n].sessionId

\* C5: the idle phase tries the idle sessions in listed order, a failed
\* attach does not end the search, and the handle returned is that of the
\* first idle session whose attach succeeds.
C5_FirstIdleThatAttaches ==
  \A n \in 1..Len(attempts) :
    attempts[n].phase = "idle" =>
      /\ n <= Cardinality(ListedIdle)
      /\ attempts[n].id = NthListedIdle(n)
      /\ \A m \in 1..(n - 1) : attempts[m] = Attempt("idle", NthListedIdle(m), FALSE)
      /\ attempts[n].ok =>
           /\ gpc = "returned"
           /\ browser = SessionBrowser(NthListedIdle(n))
      /\ (~attempts[n].ok /\ n = Len(attempts) /\ n < Cardinality(ListedIdle))
           => gpc = "idleLoop" /\ idx = n + 1

C5_Witness ==
  /\ gpc = "returned"
  /\ Len(sessions) = 3
  /\ Cardinality(ListedIdle) = 3
  /\ sessions[1].sessionId = 2
  /\ Len(attempts) = 3
  /\ ~attempts[1].ok /\ ~attempts[2].ok /\ attempts[3].ok
  /\ browser = SessionBrowser(sessions[3].sessionId)

\* the pool path ended without a handle: no pool reference, or the launch,
\* reached after every idle and active attach failed, failed too
PoolPathFailed ==
  \/ ~BROWSER /\ gpc # "start"
  \/ \E n \in 1..Len(attempts) : attempts[n] = Attempt("launch", 0, FALSE)

\* C6: when the pool path yields no handle and no direct endpoint is
\* supplied, getBrowser returns an absent handle and does not throw.
C6_AbsentWithoutEndpoint ==
  (PoolPathFailed /\ wsEndpoint = Undefined)
    => gpc = "returned" /\ browser = NoBrowser

C6_Witness ==
  /\ gpc = "returned"
  /\ BROWSER
  /\ wsEndpoint = Undefined
  /\ Len(attempts) = 3
  /\ attempts[1] = Attempt("idle", 1, FALSE)
  /\ attempts[2] = Attempt("active", 3, FALSE)
  /\ attempts[3] = Attempt("launch", 0, FALSE)
  /\ browser = NoBrowser

\* the indices of cands that have no earlier record with the same pair
FirstOccurrences(cands) ==
  { i \in 1..Len(cands) : \A k \in 1..(i - 1) : ~SamePair(cands[k], cands[i]) }

\* res is cands restricted to its first occurrences, in the order of cands
KeepsFirstInOrder(cands, res) ==
  LET K == FirstOccurrences(cands)
  IN /\ Len(res) = Cardinality(K)
     /\ \A i \in K : res[Cardinality({ k \in K : k <= i })] = cands[i]
     /\ \A i \in 1..Len(cands) : \E n \in 1..Len(res) : SamePair(res[n], cands[i])

\* C7: the returned list is the list the filter is applied to with every
\* record dropped that has an earlier record with the same (src, mimeType):
\* first occurrences are kept, in discovery order, and every pair survives.
C7_KeepsFirstInOrder ==
  [][\A c \in Calls :
       (pc[c] = "close" /\ pc'[c] = "returned")
         => KeepsFirstInOrder(images[c], result'[c])]_vars

C7_Witness ==
  /\ Returned(1)
  /\ Len(log[1]) = 2
  /\ log[1][1] = [resp |-> Resp(UrlPng, MimePng, <<"1","2">>), at |-> "goto"]
  /\ log[1][2] = [resp |-> Resp(UrlPng, Undefined, Undefined), at |-> "screenshot"]
  /\ Len(result[1]) = 1
  /\ result[1][1].size = Num(12)
  /\ ~result[1][1].decoded

\* C8: every returned record with decoded = false has width 0 and height 0.
C8_UndecodedHasZeroSize ==
  \A c \in Calls :
    Returned(c) =>
      \A i \in 1..Len(result[c]) :
        ~result[c][i].decoded => result[c][i].width = 0 /\ result[c][i].height = 0

C8_Witness ==
  /\ Returned(1)
  /\ Len(result[1]) = 2
  /\ ~result[1][1].decoded /\ result[1][1].width = 0 /\ result[1][1].height = 0
  /\ result[1][2].decoded /\ result[1][2].width = 2 /\ result[1][2].height = 3
  /\ \A n \in 1..Len(log[1]) : log[1][n].at = "goto"

\* the path of a URL: what precedes the query and the fragment
RECURSIVE PathOf(_)
PathOf(url) ==
  IF url = <<>> \/ Head(url) \in {"?", "#"} THEN <<>>
  ELSE <<Head(url)>> \o PathOf(Tail(url))

HasImagePathSuffix(url) ==
  \E k \in 1..Len(IMAGE_EXTENSIONS) :
    endsWith(toLowerCase(PathOf(url)), IMAGE_EXTENSIONS[k])

HasImageContentType(r) ==
  r.contentType # Undefined /\ startsWith(r.contentType, StrImage)

\* the handler of call c has just run on a response
Handled(c) == Len(log'[c]) = Len(log[c]) + 1
JustHandled(c) == log'[c][Len(log'[c])].resp
Pushed(c) == Len(images'[c]) = Len(images[c]) + 1

\* C9: a response produces a record if and only if its content-type starts
\* with "image" or the suffix of its URL's path is a known image extension.
C9_RecordIffImage ==
  [][\A c \in Calls :
       Handled(c) =>
         ( Pushed(c) <=> ( \/ HasImageContentType(JustHandled(c))
                           \/ HasImagePathSuffix(JustHandled(c).url) ) )]_vars

ExtensionTypes ==
  { <<ExtJpg, MimeJpeg>>, <<ExtJpeg, MimeJpeg>>, <<ExtPng, MimePng>>,
    <<ExtGif, MimeGif>>, <<ExtWebp, MimeWebp>>, <<ExtBmp, MimeBmp>>,
    <<ExtIco, MimeIcon>>, <<ExtSvg, MimeSvg>> }

\* the types the suffix of the URL stands for (at most one)
InferredTypes(url) ==
  { et[2] : et \in { e \in ExtensionTypes : endsWith(toLowerCase(url), e[1]) } }

\* header, else inferred, else sentinel; `has` says when the header counts
MimeByOrder(r, has) ==
  IF has THEN {r.contentType}
  ELSE IF InferredTypes(r.url) # {} THEN InferredTypes(r.url)
  ELSE {MimeUnknown}

LastMime(c) == images'[c][Len(images'[c])].mimeType

\* C10 as stated: the mimeType is the content-type header if present, else
\* the type inferred from the URL suffix, else "image/unknown".
C10_HeaderIfPresent ==
  [][\A c \in Calls :
       (Handled(c) /\ Pushed(c)) =>
         LastMime(c) \in
           MimeByOrder(JustHandled(c), JustHandled(c).contentType # Undefined)]_vars

\* C10 amended: the mimeType is the content-type header if present and not
\* empty, else the type inferred from the URL suffix, else "image/unknown";
\* no content-type header and a URL ending in .gif give "image/gif".
C10_HeaderIfNonEmpty ==
  [][\A c \in Calls :
       (Handled(c) /\ Pushed(c)) =>
         /\ LastMime(c) \in
              MimeByOrder(JustHandled(c),
                          JustHandled(c).contentType \notin {Undefined, <<>>})
         /\ ( /\ JustHandled(c).contentType = Undefined
              /\ endsWith(JustHandled(c).url, ExtGif) )
              => LastMime(c) = MimeGif]_vars

C10_Witness ==
  /\ Len(log[1]) = 2
  /\ log[1][1].resp = Resp(UrlGif, Undefined, Undefined)
  /\ log[1][2].resp = Resp(UrlPng, <<>>, Undefined)
  /\ Len(images[1]) = 2
  /\ images[1][1].mimeType = MimeGif
  /\ images[1][2].mimeType = MimePng

\* C11: the size of every returned record is a non-negative number.
C11_SizeNonNegative ==
  \A c \in Calls :
    Returned(c) =>
      \A i \in 1..Len(result[c]) :
        result[c][i].size.t = "number" /\ result[c][i].size.v >= 0

\* the size the claim demands of the record made from r
ClaimedSize(r) ==
  IF startsWith(r.url, StrData) THEN Num(Len(r.url))
  ELSE IF r.contentLength = <<"1","2">> THEN Num(12)
  ELSE NaN

LastSize(c) == images'[c][Len(images'[c])].size

\* C12: the size of a record made from a data: URI is the length of the URI,
\* whatever the content-length header says; the size of any other record is
\* the number the content-length header converts to.
C12_DataUriSizedByLength ==
  [][\A c \in Calls :
       (Handled(c) /\ Pushed(c)) => LastSize(c) = ClaimedSize(JustHandled(c))]_vars

C12_Witness ==
  /\ Len(log[1]) = 2
  /\ log[1][1].resp = Resp(UrlData, MimePng, <<"1","2">>)
  /\ log[1][2].resp = Resp(UrlPng, MimePng, <<"1","2">>)
  /\ Len(images[1]) = 2
  /\ images[1][1].size = Num(7)
  /\ images[1][2].size = Num(12)

Steps == <<"newPage", "goto", "screenshot", "evaluate", "close">>

\* C13: a failed step is not retried, its rejection is what the call throws,
\* and a call ends either with a list or with that rejection, never with
\* both: a call that threw returned nothing.
C13_FailurePropagates ==
  \A c \in Calls :
    /\ \A m, n \in 1..Len(invoked[c]) : invoked[c][m] = invoked[c][n] => m = n
    /\ (pc[c] = "thrown") <=> (error[c] # NoError)
    /\ pc[c] = "thrown" =>
         /\ error[c] = invoked[c][Len(invoked[c])]
         /\ result[c] = <<>>
    /\ Returned(c) => error[c] = NoError /\ invoked[c] = Steps

C13_Witness ==
  /\ pc[1] = "thrown"
  /\ error[1] = "screenshot"
  /\ invoked[1] = <<"newPage", "goto", "screenshot">>
  /\ Len(images[1]) = 2
  /\ result[1] = <<>>

\* C14: when every step succeeds and no response passed the handler's image
\* test, the call returns the empty list.
C14_EmptyWhenNoImages ==
  \A c \in Calls :
    ( /\ Ended(c)
      /\ error[c] = NoError
      /\ \A n \in 1..Len(log[c]) : ~isImage(log[c][n].resp) )
    => Returned(c) /\ result[c] = <<>>

C14_Witness ==
  /\ Returned(1)
  /\ Len(log[1]) = 2
  /\ log[1][1] = [resp |-> Resp(UrlPlain, MimeHtml, <<"1","2">>), at |-> "goto"]
  /\ log[1][2] = [resp |-> Resp(UrlPngQuery, Undefined, Undefined), at |-> "screenshot"]
  /\ result[1] = <<>>

Succeeded(o) == o # Unsettled /\ o # <<>>

\* the decode step of call c has been started
DecodeStarted(c) == \E n \in 1..Len(invoked[c]) : invoked[c][n] = "evaluate"

\* one attempt per candidate; the flag of a candidate follows its own
\* attempt; the step is over only when every attempt has settled
AttemptsIndependent(c) ==
  DecodeStarted(c) =>
    /\ Len(settled[c]) = Len(inpage[c])
    /\ pending[c] = { i \in 1..Len(settled[c]) : settled[c][i] = Unsettled }
    /\ \A i \in 1..Len(inpage[c]) :
         inpage[c][i].decoded <=> Succeeded(settled[c][i])
    /\ pc[c] \in {"close", "returned"} => pending[c] = {}
    /\ pc[c] = "close" =>
         \A i \in 1..Len(inpage[c]) :
           images[c][i].decoded <=> Succeeded(settled[c][i])

\* an attempt that settles, rejected or not, touches its own record only and
\* leaves the call where it is
AttemptSettles(c) ==
  settled'[c] # settled[c] /\ pc[c] = "evaluate" =>
    /\ pc'[c] = "evaluate"
    /\ error'[c] = NoError
    /\ \E i \in pending[c] :
         /\ pending'[c] = pending[c] \ {i}
         /\ \A j \in 1..Len(inpage[c]) :
              j # i => /\ inpage'[c][j] = inpage[c][j]
                       /\ settled'[c][j] = settled[c][j]

\* C15: one decode attempt per candidate; the step completes only after all
\* of them settled; a rejected attempt neither fails the call nor touches
\* another candidate; each decoded flag follows its own attempt's outcome.
C15_DecodeFanOut ==
  /\ [](\A c \in Calls : AttemptsIndependent(c))
  /\ [][\A c \in Calls : AttemptSettles(c)]_vars

C15_Witness ==
  /\ pc[1] = "close"
  /\ settled[1] = << <<>>, <<2, 3>> >>
  /\ ~images[1][1].decoded
  /\ images[1][2].decoded
  /\ images[1][1].src = images[1][2].src

\* the result of call c has a record with the (src, mimeType) of response r
Represented(c, r) ==
  \E k \in 1..Len(result[c]) :
    /\ result[c][k].src = r.url
    /\ result[c][k].mimeType \in MimeByOrder(r, r.contentType \notin {Undefined, <<>>})

BeforeDecode == {"goto", "screenshot"}

\* C16: every response that passes the handler's image test and fires while
\* navigation or the render pass is awaited, in any order, has a record with
\* its (src, mimeType) in the returned list.
C16_EarlyEventsRepresented ==
  \A c \in Calls :
    Returned(c) =>
      \A n \in 1..Len(log[c]) :
        (log[c][n].at \in BeforeDecode /\ isImage(log[c][n].resp))
          => Represented(c, log[c][n].resp)

C16_Witness ==
  /\ Returned(1)
  /\ Len(log[1]) = 2
  /\ log[1][1] = [resp |-> Resp(UrlGif, Undefined, <<"1","2">>), at |-> "goto"]
  /\ log[1][2] = [resp |-> Resp(UrlData, MimePng, <<"1","2">>), at |-> "screenshot"]
  /\ Len(result[1]) = 2
  /\ result[1][1].src = UrlGif
  /\ result[1][2].src = UrlData

\* the record at index k of the result went through a decode attempt of
\* this call
Attempted(c, k) ==
  \E i \in 1..Len(inpage[c]) :
    /\ settled[c][i] # Unsettled
    /\ result[c][k] = SerializeRecord(inpage[c][i])

\* C17: responses that fire after the render pass do not affect the result:
\* every returned record was collected before the decode step started and
\* went through one decode attempt.
C17_LateEventsIgnored ==
  \A c \in Calls :
    Returned(c) =>
      /\ \A k \in 1..Len(result[c]) : Attempted(c, k)
      /\ Len(result[c]) <= Cardinality({ n \in 1..Len(log[c]) :
                                          log[c][n].at \in BeforeDecode })

\* the URLs of the responses observed on the page of call c
ObservedUrls(c) == { log[c][n].resp.url : n \in 1..Len(log[c]) }

\* a step that changes what call c owns is a step of call c or an event of
\* its page
OwnStep(c) == pc'[c] # pc[c] \/ log'[c] # log[c] \/ settled'[c] # settled[c]

\* C18: with two calls on one browser handle, under every interleaving, a
\* call's page is opened and closed by that call only, and the list a call
\* returns has records only for responses observed on its own page.
C18_CallsIsolated ==
  /\ [](\A c \in Calls :
          Returned(c) =>
            \A k \in 1..Len(result[c]) : result[c][k].src \in ObservedUrls(c))
  /\ [][\A c \in Calls :
          /\ page'[c] # page[c] => pc'[c] # pc[c]
          /\ (page'[c] # page[c] \/ images'[c] # images[c]
                \/ closeInvoked'[c] # closeInvoked[c] \/ result'[c] # result[c])
               => (OwnStep(c) /\ \A d \in Calls \ {c} : page'[d] = page[d])]_vars

C18_Witness ==
  /\ Returned(1)
  /\ Returned(2)
  /\ Len(log[1]) = 1
  /\ Len(log[2]) = 1
  /\ Len(result[1]) = 1
  /\ Len(result[2]) = 1
  /\ result[1][1].src = UrlPng
  /\ result[2][1].src = UrlGif

\* C19: isImageUrl(url) holds exactly when getMimeTypeFromUrl(url) is not
\* null, and no record the handler creates has the mimeType "image/unknown".
C19_NoSentinel ==
  /\ [](\A c \in Calls : \A i \in 1..Len(images[c]) :
          images[c][i].mimeType # MimeUnknown)
  /\ [][\A c \in Calls :
          Handled(c) =>
            /\ isImageUrl(JustHandled(c).url)
                 <=> getMimeTypeFromUrl(JustHandled(c).url) # Null
            /\ Pushed(c) => LastMime(c) # MimeUnknown]_vars

C19_Witness ==
  /\ Len(log[1]) = 2
  /\ log[1][1].resp = Resp(UrlSvg, Undefined, Undefined)
  /\ log[1][2].resp = Resp(UrlPlain, MimePng, Undefined)
  /\ Len(images[1]) = 2
  /\ images[1][1].mimeType = MimeSvg
  /\ images[1][2].mimeType = MimePng

====
